---- MODULE Spec2Model ----
(***************************************************************************)
(* IlluminationBuffer: the WebGL call-stream interceptor of                *)
(* scripts/interceptor.js.                                                 *)
(*                                                                         *)
(* The module patches gl.useProgram and gl.drawElements.  The real-time    *)
(* detector (armRealTimeCapture) copies the last render target of the      *)
(* lighting pass into a persistent texture whenever the pass is left; the  *)
(* one-shot debug detector (armOneShotDebugCapture) extracts it once and   *)
(* restores the entry points.  The host (Foundry VTT / PIXI) drives the    *)
(* model: it binds programs, issues indexed draws, binds and recycles      *)
(* render targets, resizes the canvas and fires canvasReady and            *)
(* canvasTearDown.                                                         *)
(***************************************************************************)
EXTENDS Integers, Sequences, FiniteSets, TLC

(***************************************************************************)
(* Bounds of the model.                                                    *)
(***************************************************************************)
MaxDraws == 2        \* indexed draws the host issues between two binds
MaxTex == 3          \* persistent textures allocated in one behaviour
MaxListeners == 2    \* registrations of onCanvasResize on the renderer
MaxTearDowns == 2    \* consecutive canvasTearDown events that are told apart
MaxFired == 2        \* EndOfPass events of one arming that are told apart

(***************************************************************************)
(* Values.                                                                 *)
(***************************************************************************)
NULL == 0                               \* JavaScript null (no texture)
Targets == {1, 2}                       \* the host's ephemeral render targets
TexIds == 1 .. MaxTex                   \* PIXI.RenderTexture.create results
Dims == {<<800, 600>>, <<1920, 1080>>}  \* viewport sizes
Programs == {"target", "other", "opaque", "tagged", "nosource"}
DrawModes == {"TRIANGLES", "TRIANGLE_STRIP"}   \* first argument of gl.drawElements

(***************************************************************************)
(* Render-target references, the values of renderer.renderTexture.current: *)
(* NULL (the screen), a host target, or Own(i), the module's own texture i *)
(* (renderer.render and renderer.extract leave the texture they were given *)
(* bound as the current render target).                                    *)
(***************************************************************************)
Own(i) == Cardinality(Targets) + i

\* .valid of the texture behind a reference
ValidRef(ref, valid, texs) ==
    IF ref \in Targets
    THEN valid[ref]
    ELSE texs[ref - Cardinality(Targets)].state = "live"

(***************************************************************************)
(* The fragment shader source of a program, as far as the two matchers     *)
(* read it.  throws: gl.getAttachedShaders(program)[1] or getShaderSource  *)
(* fails (no attached shaders).  isNull: getShaderSource returns null.     *)
(* name: the text after "#define SHADER_NAME", "" when the source has no   *)
(* such line.  body: the rest of the source.                               *)
(***************************************************************************)
ShaderSource(p) ==
    CASE p = "target" -> [throws |-> FALSE, isNull |-> FALSE,
                          name |-> "pixi-shader-15", body |-> "main"]
      [] p = "other"  -> [throws |-> FALSE, isNull |-> FALSE,
                          name |-> "pixi-shader-7", body |-> "main"]
      [] p = "tagged" -> [throws |-> FALSE, isNull |-> FALSE,
                          name |-> "", body |-> "pixi-shader-15"]
      [] p = "nosource" -> [throws |-> FALSE, isNull |-> TRUE, name |-> "", body |-> ""]
      [] OTHER        -> [throws |-> TRUE, isNull |-> FALSE, name |-> "", body |-> ""]

\* String.prototype.includes("pixi-shader-15") on the strings of ShaderSource
IncludesTag(s) == s = "pixi-shader-15"

\* an entry condition that takes a program it cannot resolve for the target
RtMatches_UnresolvedMatches(p) ==
    LET src == ShaderSource(p)
    IN  \/ src.throws
        \/ src.isNull
        \/ IncludesTag(src.name) \/ IncludesTag(src.body)

\* real-time entry condition: source && source.includes("pixi-shader-15"),
\* inside try/catch
RtMatches(p) ==
    LET src == ShaderSource(p)
    IN  /\ ~src.throws
        /\ ~src.isNull
        /\ (IncludesTag(src.name) \/ IncludesTag(src.body))

\* debug entry condition: programName from the SHADER_NAME define, else
\* "UnknownProgram" (source.match raises on a null source, inside the try);
\* programName.includes("pixi-shader-15")
DbgMatches(p) ==
    LET src == ShaderSource(p)
        programName == IF ~src.throws /\ ~src.isNull /\ src.name # ""
                       THEN src.name ELSE "UnknownProgram"
    IN  IncludesTag(programName)

VARIABLES
    debugMode,            \* setting enableDebugMode, read once in the ready hook
    dbgHookPending,       \* Hooks.once('canvasReady') of debug mode not yet run
    glAvail,              \* canvas.app?.renderer?.gl is obtainable
    glUseProgram,         \* the function installed as gl.useProgram
    glDrawElements,       \* the function installed as gl.drawElements
    originalGLFunctions,  \* saved originals of the real-time path
    isInterceptorArmed,
    isApiReady,
    persistentTexture,    \* NULL or a texture id
    textures,             \* every RenderTexture the module created
    resizeListeners,      \* registrations of onCanvasResize for 'resize'
    rt,                   \* closure variables of the real-time wrappers
    dbg,                  \* closure variables of the debug wrappers
    dbgArmed,             \* window.illuminationBufferDebugCaptureArmed
    current,              \* renderer.renderTexture.current
    targetValid,          \* .valid of the host's render targets
    emitted,              \* EndOfPass events raised by the last call (by: the
                          \* program whose bind ended the pass)
    host,                 \* the call stream since the last bind
    hasCopied,            \* a copy has succeeded since the last teardown
    resizedInPass,        \* a resize hit the running pass after a draw
    legacy,               \* the libWrapper variant of the module (LegacyOff when
                          \* the WebGL-tap variant is the one loaded)
    tornDown,             \* canvasTearDown events handled in a row
    armLog,               \* outcome of the calls of the debug arming function
    call                  \* the last gl call: what it forwarded and returned

vars == <<debugMode, dbgHookPending, glAvail, glUseProgram, glDrawElements,
          originalGLFunctions, isInterceptorArmed, isApiReady,
          persistentTexture, textures, resizeListeners, rt, dbg, dbgArmed,
          current, targetValid, emitted, host, hasCopied, resizedInPass,
          legacy, tornDown, armLog, call>>

(***************************************************************************)
(* Persistent textures.                                                    *)
(***************************************************************************)
FreeTex == [state |-> "free", w |-> 0, h |-> 0, populated |-> FALSE]

FreeIds(texs) == {i \in TexIds : texs[i].state = "free"}

\* the object the next PIXI.RenderTexture.create returns
FreshTex(texs) == CHOOSE i \in FreeIds(texs) : \A j \in FreeIds(texs) : i <= j

\* PIXI.RenderTexture.create({width, height, resolution})
CreateTexture(texs, id, d) ==
    [texs EXCEPT ![id] = [state |-> "live", w |-> d[1], h |-> d[2], populated |-> FALSE]]

\* destroy that leaves the allocation as it is
DestroyTexture_KeepsAllocation(texs, id) == texs

\* texture.destroy(true): the GPU allocation, its size and its contents are
\* released
DestroyTexture(texs, id) ==
    [texs EXCEPT ![id] = [state |-> "destroyed", w |-> 0, h |-> 0, populated |-> FALSE]]

\* renderer.render(tempSprite, {renderTexture: dst, clear: false}) with a
\* sprite of the texture src; a texture drawn into itself gains nothing
RenderInto(texs, src, dst) ==
    IF src = Own(dst) THEN texs ELSE [texs EXCEPT ![dst].populated = TRUE]

\* onCanvasResize that keeps a texture it already holds
OnCanvasResize_KeepsOld(b, d) ==
    IF b.persistentTexture # NULL
    THEN b
    ELSE LET id == FreshTex(b.textures)
         IN  [persistentTexture |-> id, textures |-> CreateTexture(b.textures, id, d)]

\* onCanvasResize that destroys the texture it holds and creates no new one
OnCanvasResize_DropsReference(b, d) ==
    IF b.persistentTexture # NULL
    THEN [persistentTexture |-> NULL,
          textures |-> DestroyTexture(b.textures, b.persistentTexture)]
    ELSE LET id == FreshTex(b.textures)
         IN  [persistentTexture |-> id, textures |-> CreateTexture(b.textures, id, d)]

\* onCanvasResize(width, height) on the pair (persistentTexture, textures)
OnCanvasResize(b, d) ==
    LET released == IF b.persistentTexture # NULL
                    THEN DestroyTexture(b.textures, b.persistentTexture)
                    ELSE b.textures
        id == FreshTex(released)
    IN  [persistentTexture |-> id, textures |-> CreateTexture(released, id, d)]

\* the 'resize' event: every registered onCanvasResize listener runs
RECURSIVE EmitResize(_, _, _)
EmitResize(b, d, n) ==
    IF n = 0 THEN b ELSE EmitResize(OnCanvasResize(b, d), d, n - 1)

(***************************************************************************)
(* The public API.                                                         *)
(***************************************************************************)
\* IlluminationBufferAPI.isReady()
IsReady == isApiReady

\* getTexture without the isApiReady check
GetTexture_NoReadyCheck == persistentTexture

\* IlluminationBufferAPI.getTexture()
GetTexture == IF ~isApiReady THEN NULL ELSE persistentTexture

(***************************************************************************)
(* Observers of the call stream.                                           *)
(***************************************************************************)
HostNone == [fromIdleMatch |-> FALSE, draws |-> 0, lastDrawTarget |-> NULL]

\* after a bind of p that found the detector Idle (wasInPass = FALSE) or InPass
HostAfterBind(p, wasInPass) ==
    [fromIdleMatch |-> (p = "target" /\ ~wasInPass), draws |-> 0, lastDrawTarget |-> NULL]

HostAfterDraw == [host EXCEPT !.draws = @ + 1, !.lastDrawTarget = current]

\* no gl call is being observed
NoCall == [fn |-> "none", arg |-> "", forwards |-> << >>, result |-> << >>,
           steps |-> << >>]

\* what the original implementation returns to its caller
OrigReturn(fn, arg) == <<"return", fn, arg>>

\* original.apply(this, arguments), the wrapper being called as a method of gl
Forward(fn, arg) == [fn |-> fn, arg |-> arg, this |-> "gl"]

\* a call that reached the original once and returned what the original returned
Forwarded(fn, arg) ==
    [fn |-> fn, arg |-> arg, forwards |-> << Forward(fn, arg) >>,
     result |-> OrigReturn(fn, arg), steps |-> << "forward" >>]

\* a call that raised before it reached the original
Raised(fn, arg) ==
    [fn |-> fn, arg |-> arg, forwards |-> << >>, result |-> <<"throw", fn, arg>>,
     steps |-> << "raise" >>]

\* originalGLFunctions.useProgram.apply(this, arguments) and its drawElements
\* twin in the real-time wrappers: the callee is looked up in saved when the
\* wrapper runs.  A saved function that is itself a wrapper of the module
\* forwards to the same saved function again and never reaches the original:
\* the call raises.
RtForwarded(fn, arg, saved) ==
    IF saved[fn] = "orig" THEN Forwarded(fn, arg) ELSE Raised(fn, arg)

\* a sequence with x when b holds, empty otherwise
When(b, x) == IF b THEN << x >> ELSE << >>

\* the real-time gl.useProgram wrapper that forwards before it handles the exit
RtBindSteps_ForwardFirst(exit, copy, becomesReady, matches) ==
    << "forward" >> \o When(exit, "exit") \o When(copy, "copy")
       \o When(becomesReady, "ready") \o When(matches, "entry")

\* what the real-time gl.useProgram wrapper does, in the order of its statements
RtBindSteps(exit, copy, becomesReady, matches) ==
    When(exit, "exit") \o When(copy, "copy") \o When(becomesReady, "ready")
       \o When(matches, "entry") \o << "forward" >>

\* what the debug gl.useProgram wrapper does, in the order of its statements
DbgBindSteps(exit, found, thrown, enters) ==
    IF thrown
    THEN << "exit", "extract", "raise" >>
    ELSE When(exit, "exit") \o When(exit /\ found, "extract")
            \o When(exit /\ ~found, "warn") \o When(exit, "restore")
            \o When(enters, "entry") \o << "forward" >>

\* what a gl.drawElements wrapper does, in the order of its statements
DrawSteps(inPass) == << "forward" >> \o When(inPass, "record")

\* no call of the debug arming function yet
NoArm == [last |-> "none", aborted |-> FALSE, fired |-> 0]

NoFunctions == [useProgram |-> "null", drawElements |-> "null"]

RtClosure == [inTargetShaderPass |-> FALSE, lastCapturedTexture |-> NULL]

DbgClosure(u, d) ==
    [inTargetShaderPass |-> FALSE, lastCapturedTexture |-> NULL, drawCountInPass |-> 0,
     originalUseProgram |-> u, originalDrawElements |-> d]

\* the libWrapper variant before its canvasReady handler has run
LegacyState(pending, renderer, preview, libWrapperActive, filterApply) ==
    [hookPending |-> pending,          \* Hooks.once("canvasReady") not yet run
     renderer |-> renderer,            \* canvas.app?.renderer exists
     isPreview |-> preview,            \* setting livePreview
     libWrapperActive |-> libWrapperActive,
     filterApply |-> filterApply,      \* canvas.effects.illumination.filter.apply exists
     apiTexture |-> NULL,              \* api._persistentTexture
     wrapperRegistered |-> FALSE,      \* libWrapper.register(... filter.apply ...)
     didCopy |-> FALSE,                \* interceptorState.didCopy
     previewSprite |-> FALSE,          \* previewSprite exists
     previewTexture |-> NULL,          \* previewSprite.texture
     tickerAdded |-> FALSE,
     notifications |-> << >>,          \* payloads of Hooks.callAll('illuminationBufferReady')
     copied |-> FALSE]                 \* updateFromSource has copied

LegacyOff == LegacyState(FALSE, FALSE, FALSE, FALSE, FALSE)

(***************************************************************************)
(* The state after the 'init' and 'ready' hooks: the mode is decided, the  *)
(* canvasReady and canvasTearDown handlers are registered, nothing is      *)
(* patched.                                                                *)
(***************************************************************************)
Init ==
    /\ debugMode \in BOOLEAN
    /\ dbgHookPending = debugMode
    /\ glAvail = TRUE
    /\ glUseProgram = "orig"
    /\ glDrawElements = "orig"
    /\ originalGLFunctions = NoFunctions
    /\ isInterceptorArmed = FALSE
    /\ isApiReady = FALSE
    /\ persistentTexture = NULL
    /\ textures = [i \in TexIds |-> FreeTex]
    /\ resizeListeners = 0
    /\ rt = RtClosure
    /\ dbg = DbgClosure("null", "null")
    /\ dbgArmed = FALSE
    /\ current = NULL
    /\ targetValid = [t \in Targets |-> TRUE]
    /\ emitted = << >>
    /\ host = HostNone
    /\ hasCopied = FALSE
    /\ resizedInPass = FALSE
    /\ legacy = LegacyOff
    /\ tornDown = 0
    /\ armLog = NoArm
    /\ call = NoCall

(***************************************************************************)
(* Real-time mode.                                                         *)
(***************************************************************************)
\* armRealTimeCapture without the isInterceptorArmed check
ArmRealTimeCapture_NoGuard ==
    IF ~glAvail
    THEN UNCHANGED <<originalGLFunctions, glUseProgram, glDrawElements, rt,
                     isInterceptorArmed, host, resizedInPass>>
    ELSE /\ originalGLFunctions' =
                IF originalGLFunctions.useProgram = "null"
                THEN [useProgram |-> glUseProgram, drawElements |-> glDrawElements]
                ELSE originalGLFunctions
         /\ rt' = RtClosure
         /\ glUseProgram' = "rt"
         /\ glDrawElements' = "rt"
         /\ isInterceptorArmed' = TRUE
         /\ host' = HostNone
         /\ resizedInPass' = FALSE

\* armRealTimeCapture that saves the entry points at every install
ArmRealTimeCapture_AlwaysSaves ==
    IF ~glAvail \/ isInterceptorArmed
    THEN UNCHANGED <<originalGLFunctions, glUseProgram, glDrawElements, rt,
                     isInterceptorArmed, host, resizedInPass>>
    ELSE /\ originalGLFunctions' =
                [useProgram |-> glUseProgram, drawElements |-> glDrawElements]
         /\ rt' = RtClosure
         /\ glUseProgram' = "rt"
         /\ glDrawElements' = "rt"
         /\ isInterceptorArmed' = TRUE
         /\ host' = HostNone
         /\ resizedInPass' = FALSE

\* armRealTimeCapture()
ArmRealTimeCapture ==
    IF ~glAvail \/ isInterceptorArmed
    THEN UNCHANGED <<originalGLFunctions, glUseProgram, glDrawElements, rt,
                     isInterceptorArmed, host, resizedInPass>>
    ELSE /\ originalGLFunctions' =
                IF originalGLFunctions.useProgram = "null"
                THEN [useProgram |-> glUseProgram, drawElements |-> glDrawElements]
                ELSE originalGLFunctions
         /\ rt' = RtClosure
         /\ glUseProgram' = "rt"
         /\ glDrawElements' = "rt"
         /\ isInterceptorArmed' = TRUE
         /\ host' = HostNone
         /\ resizedInPass' = FALSE

\* the canvasReady handler of real-time mode
CanvasReady(d) ==
    /\ ~debugMode
    /\ FreeIds(textures) # {}
    /\ resizeListeners < MaxListeners
    /\ LET b == OnCanvasResize([persistentTexture |-> persistentTexture,
                                textures |-> textures], d)
       IN  /\ persistentTexture' = b.persistentTexture
           /\ textures' = b.textures
    /\ resizeListeners' = resizeListeners + 1
    /\ ArmRealTimeCapture
    /\ emitted' = << >>
    /\ tornDown' = 0
    /\ call' = NoCall
    /\ UNCHANGED <<armLog, legacy, debugMode, dbgHookPending, glAvail, isApiReady, dbg, dbgArmed,
                   current, targetValid, hasCopied>>

\* the renderer's 'resize' event
Resize(d) ==
    /\ resizeListeners > 0
    /\ Cardinality(FreeIds(textures)) >= resizeListeners
    /\ LET b == EmitResize([persistentTexture |-> persistentTexture,
                            textures |-> textures], d, resizeListeners)
       IN  /\ persistentTexture' = b.persistentTexture
           /\ textures' = b.textures
    /\ resizedInPass' = (resizedInPass \/ (glUseProgram = "rt" /\ rt.inTargetShaderPass
                                             /\ rt.lastCapturedTexture # NULL))
    /\ emitted' = << >>
    /\ tornDown' = 0
    /\ call' = NoCall
    /\ UNCHANGED <<armLog, legacy, debugMode, dbgHookPending, glAvail, glUseProgram, glDrawElements,
                   originalGLFunctions, isInterceptorArmed, isApiReady,
                   resizeListeners, rt, dbg, dbgArmed, current, targetValid, host,
                   hasCopied>>

\* a copy condition that does not look at .valid of the captured target
RtCopies_IgnoresValid(r, valid, texs, ptex) ==
    /\ r.lastCapturedTexture # NULL
    /\ ptex # NULL

\* the condition of the GPU copy at pass exit
RtCopies(r, valid, texs, ptex) ==
    /\ r.lastCapturedTexture # NULL
    /\ ValidRef(r.lastCapturedTexture, valid, texs)
    /\ ptex # NULL

\* RtAfterDraw recording the render target whatever the state of the detector
RtAfterDraw_AlwaysRecords(r, cur) == [r EXCEPT !.lastCapturedTexture = cur]

\* a recorder that also ends the pass
RtAfterDraw_EndsPass(r, cur) ==
    IF r.inTargetShaderPass
    THEN [r EXCEPT !.lastCapturedTexture = cur, !.inTargetShaderPass = FALSE]
    ELSE r

\* the closure after the real-time gl.drawElements wrapper
RtAfterDraw(r, cur) ==
    IF r.inTargetShaderPass THEN [r EXCEPT !.lastCapturedTexture = cur] ELSE r

\* a wrapper that leaves the flag set when it finds the pass over
RtAfterExit_KeepsPass(r) == r

\* the closure after the exit check of the gl.useProgram wrapper
RtAfterExit(r) ==
    IF r.inTargetShaderPass THEN [r EXCEPT !.inTargetShaderPass = FALSE] ELSE r

\* the closure after the entry check of the gl.useProgram wrapper
RtAfterEntry(r, p) ==
    IF RtMatches(p) THEN [r EXCEPT !.inTargetShaderPass = TRUE] ELSE r

\* the closure after the exit and entry checks of gl.useProgram(p)
RtAfterBind(r, p) == RtAfterEntry(RtAfterExit(r), p)

\* the programs renderer.render binds to draw the PIXI.Sprite of the copy: the
\* renderer's own sprite programs, none of them the lighting program
SpritePrograms == {q \in Programs : ~RtMatches(q)}

\* renderer.render(tempSprite, { renderTexture: persistentTexture }) with the
\* wrappers installed: it binds its sprite program q and issues one indexed
\* draw into the persistent buffer, both through the wrappers; r is the
\* closure when the copy starts.  exits, copies: the EndOfPass raised and the
\* copies started by the nested bind.
RtDuringCopy(r, q, valid, texs, ptex) ==
    LET nestedExit == r.inTargetShaderPass
        nestedCopy == nestedExit /\ RtCopies(r, valid, texs, ptex)
        afterBind  == RtAfterBind(r, q)
    IN  [closure  |-> RtAfterDraw(afterBind, Own(ptex)),
         inPassAtStart |-> r.inTargetShaderPass,
         exits    |-> IF nestedExit THEN 1 ELSE 0,
         copies   |-> IF nestedCopy THEN 1 ELSE 0]

\* the closure after the whole gl.useProgram(p) wrapper, q being the sprite
\* program of the copy
RtAfterUseProgram(r, p, q, copy, valid, texs, ptex) ==
    IF copy
    THEN RtAfterEntry(RtDuringCopy(RtAfterExit(r), q, valid, texs, ptex).closure, p)
    ELSE RtAfterBind(r, p)

\* the real-time gl.useProgram wrapper
RtUseProgram(p) ==
    /\ glAvail
    /\ glUseProgram = "rt"
    /\ LET exit == rt.inTargetShaderPass
           copy == exit /\ RtCopies(rt, targetValid, textures, persistentTexture)
       IN
       \* q: the sprite program of the copy; without a copy nothing is rendered
       \E q \in (IF copy THEN SpritePrograms ELSE {p}) :
       LET during == RtDuringCopy(RtAfterExit(rt), q, targetValid, textures,
                                  persistentTexture)
       IN  /\ rt' = RtAfterUseProgram(rt, p, q, copy, targetValid, textures,
                                      persistentTexture)
           /\ textures' = IF copy
                         THEN RenderInto(textures, rt.lastCapturedTexture, persistentTexture)
                         ELSE textures
           /\ current' = IF copy THEN Own(persistentTexture) ELSE current
           /\ isApiReady' = IF copy /\ ~isApiReady THEN TRUE ELSE isApiReady
           /\ hasCopied' = (hasCopied \/ copy)
           /\ emitted' = IF exit
                         THEN << [detector |-> "rt", by |-> p,
                                  target |-> rt.lastCapturedTexture, copied |-> copy,
                                  dst |-> IF copy THEN persistentTexture ELSE NULL,
                                  inPassDuringCopy |-> copy /\ during.inPassAtStart,
                                  nestedExits |-> IF copy THEN during.exits ELSE 0,
                                  copies |-> IF copy THEN 1 + during.copies ELSE 0] >>
                         ELSE << >>
    /\ host' = HostAfterBind(p, rt.inTargetShaderPass)
    /\ resizedInPass' = FALSE
    /\ tornDown' = 0
    /\ LET exit == rt.inTargetShaderPass
           copy == exit /\ RtCopies(rt, targetValid, textures, persistentTexture)
       IN  call' = [RtForwarded("useProgram", p, originalGLFunctions) EXCEPT
                       !.steps = RtBindSteps(exit, copy, copy /\ ~isApiReady,
                                             RtMatches(p))]
    /\ UNCHANGED <<armLog, legacy, debugMode, dbgHookPending, glAvail, glUseProgram, glDrawElements,
                   originalGLFunctions, isInterceptorArmed, persistentTexture,
                   resizeListeners, dbg, dbgArmed, targetValid>>

\* the real-time gl.drawElements wrapper
RtDrawElements ==
    /\ glAvail
    /\ glDrawElements = "rt"
    /\ host.draws < MaxDraws
    /\ rt' = RtAfterDraw(rt, current)
    /\ host' = HostAfterDraw
    /\ emitted' = << >>
    /\ tornDown' = 0
    /\ \E m \in DrawModes :
          call' = [RtForwarded("drawElements", m, originalGLFunctions) EXCEPT
                      !.steps = DrawSteps(rt.inTargetShaderPass)]
    /\ UNCHANGED <<armLog, legacy, debugMode, dbgHookPending, glAvail, glUseProgram, glDrawElements,
                   originalGLFunctions, isInterceptorArmed, isApiReady,
                   persistentTexture, textures, resizeListeners, dbg, dbgArmed,
                   current, targetValid, hasCopied, resizedInPass>>

\* tearDownRealTime without the reset of isApiReady
TearDownRealTime_KeepsReady ==
    /\ ~debugMode
    /\ LET restore == isInterceptorArmed /\ originalGLFunctions.useProgram # "null" /\ glAvail
       IN  /\ glUseProgram' = IF restore THEN originalGLFunctions.useProgram ELSE glUseProgram
           /\ glDrawElements' = IF restore THEN originalGLFunctions.drawElements
                                ELSE glDrawElements
           /\ host' = IF restore THEN HostNone ELSE host
    /\ textures' = IF persistentTexture # NULL
                   THEN DestroyTexture(textures, persistentTexture)
                   ELSE textures
    /\ persistentTexture' = NULL
    /\ resizeListeners' = 0
    /\ isInterceptorArmed' = FALSE
    /\ hasCopied' = FALSE
    /\ emitted' = << >>
    /\ tornDown' = IF tornDown < MaxTearDowns THEN tornDown + 1 ELSE tornDown
    /\ call' = NoCall
    /\ UNCHANGED <<armLog, legacy, debugMode, dbgHookPending, glAvail, originalGLFunctions, rt, dbg,
                   dbgArmed, current, targetValid, resizedInPass, isApiReady>>

\* tearDownRealTime that destroys the texture and keeps the reference to it
TearDownRealTime_KeepsReference ==
    /\ ~debugMode
    /\ LET restore == isInterceptorArmed /\ originalGLFunctions.useProgram # "null" /\ glAvail
       IN  /\ glUseProgram' = IF restore THEN originalGLFunctions.useProgram ELSE glUseProgram
           /\ glDrawElements' = IF restore THEN originalGLFunctions.drawElements
                                ELSE glDrawElements
           /\ host' = IF restore THEN HostNone ELSE host
    /\ textures' = IF persistentTexture # NULL
                   THEN DestroyTexture(textures, persistentTexture)
                   ELSE textures
    /\ resizeListeners' = 0
    /\ isApiReady' = FALSE
    /\ isInterceptorArmed' = FALSE
    /\ hasCopied' = FALSE
    /\ emitted' = << >>
    /\ tornDown' = IF tornDown < MaxTearDowns THEN tornDown + 1 ELSE tornDown
    /\ call' = NoCall
    /\ UNCHANGED <<armLog, legacy, debugMode, dbgHookPending, glAvail, originalGLFunctions,
                   rt, dbg, dbgArmed, current, targetValid, resizedInPass,
                   persistentTexture>>

\* tearDownRealTime that restores whether or not the interceptor is armed and
\* forgets the saved originals afterwards
TearDownRealTime_ForgetsOriginals ==
    /\ ~debugMode
    /\ glUseProgram' = IF glAvail THEN originalGLFunctions.useProgram ELSE glUseProgram
    /\ glDrawElements' = IF glAvail THEN originalGLFunctions.drawElements ELSE glDrawElements
    /\ host' = IF glAvail THEN HostNone ELSE host
    /\ originalGLFunctions' = IF glAvail THEN NoFunctions ELSE originalGLFunctions
    /\ textures' = IF persistentTexture # NULL
                   THEN DestroyTexture(textures, persistentTexture)
                   ELSE textures
    /\ persistentTexture' = NULL
    /\ resizeListeners' = 0
    /\ isApiReady' = FALSE
    /\ isInterceptorArmed' = FALSE
    /\ hasCopied' = FALSE
    /\ emitted' = << >>
    /\ tornDown' = IF tornDown < MaxTearDowns THEN tornDown + 1 ELSE tornDown
    /\ call' = NoCall
    /\ UNCHANGED <<armLog, legacy, debugMode, dbgHookPending, glAvail, rt, dbg,
                   dbgArmed, current, targetValid, resizedInPass>>

\* tearDownRealTime(), the canvasTearDown handler of real-time mode
TearDownRealTime ==
    /\ ~debugMode
    /\ LET restore == isInterceptorArmed /\ originalGLFunctions.useProgram # "null" /\ glAvail
       IN  /\ glUseProgram' = IF restore THEN originalGLFunctions.useProgram ELSE glUseProgram
           /\ glDrawElements' = IF restore THEN originalGLFunctions.drawElements
                                ELSE glDrawElements
           /\ host' = IF restore THEN HostNone ELSE host
    /\ textures' = IF persistentTexture # NULL
                   THEN DestroyTexture(textures, persistentTexture)
                   ELSE textures
    /\ persistentTexture' = NULL
    /\ resizeListeners' = 0
    /\ isApiReady' = FALSE
    /\ isInterceptorArmed' = FALSE
    /\ hasCopied' = FALSE
    /\ emitted' = << >>
    /\ tornDown' = IF tornDown < MaxTearDowns THEN tornDown + 1 ELSE tornDown
    /\ call' = NoCall
    /\ UNCHANGED <<armLog, legacy, debugMode, dbgHookPending, glAvail, originalGLFunctions, rt, dbg,
                   dbgArmed, current, targetValid, resizedInPass>>

(***************************************************************************)
(* Debug mode (one-shot capture).                                          *)
(***************************************************************************)
\* armOneShotDebugCapture without the check of the guard
ArmOneShotDebugCapture_NoGuard ==
    IF ~glAvail
    THEN /\ dbgArmed' = FALSE
         /\ armLog' = [armLog EXCEPT !.last = "aborted", !.aborted = TRUE]
         /\ UNCHANGED <<dbg, glUseProgram, glDrawElements, host>>
    ELSE /\ dbgArmed' = TRUE
         /\ dbg' = DbgClosure(glUseProgram, glDrawElements)
         /\ glUseProgram' = "dbg"
         /\ glDrawElements' = "dbg"
         /\ host' = HostNone
         /\ armLog' = [armLog EXCEPT !.last = "armed", !.fired = 0]

\* armOneShotDebugCapture that leaves the guard set when it finds no context
ArmOneShotDebugCapture_KeepsGuardOnAbort ==
    IF dbgArmed
    THEN /\ armLog' = [armLog EXCEPT !.last = "rejected"]
         /\ UNCHANGED <<dbgArmed, dbg, glUseProgram, glDrawElements, host>>
    ELSE IF ~glAvail
    THEN /\ dbgArmed' = TRUE
         /\ armLog' = [armLog EXCEPT !.last = "aborted", !.aborted = TRUE]
         /\ UNCHANGED <<dbg, glUseProgram, glDrawElements, host>>
    ELSE /\ dbgArmed' = TRUE
         /\ dbg' = DbgClosure(glUseProgram, glDrawElements)
         /\ glUseProgram' = "dbg"
         /\ glDrawElements' = "dbg"
         /\ host' = HostNone
         /\ armLog' = [armLog EXCEPT !.last = "armed", !.fired = 0]

\* armOneShotDebugCapture()
ArmOneShotDebugCapture ==
    IF dbgArmed
    THEN /\ armLog' = [armLog EXCEPT !.last = "rejected"]
         /\ UNCHANGED <<dbgArmed, dbg, glUseProgram, glDrawElements, host>>
    ELSE IF ~glAvail
    THEN /\ dbgArmed' = FALSE
         /\ armLog' = [armLog EXCEPT !.last = "aborted", !.aborted = TRUE]
         /\ UNCHANGED <<dbg, glUseProgram, glDrawElements, host>>
    ELSE /\ dbgArmed' = TRUE
         /\ dbg' = DbgClosure(glUseProgram, glDrawElements)
         /\ glUseProgram' = "dbg"
         /\ glDrawElements' = "dbg"
         /\ host' = HostNone
         /\ armLog' = [armLog EXCEPT !.last = "armed", !.fired = 0]

\* a canvasReady handler that arms the debug capture whatever the mode
CanvasReadyDebug_AnyMode ==
    /\ dbgHookPending' = FALSE
    /\ ArmOneShotDebugCapture
    /\ emitted' = << >>
    /\ tornDown' = 0
    /\ call' = NoCall
    /\ UNCHANGED <<legacy, debugMode, glAvail, originalGLFunctions, isInterceptorArmed,
                   isApiReady, persistentTexture, textures, resizeListeners, rt,
                   current, targetValid, hasCopied, resizedInPass>>

\* the canvasReady handler of debug mode (Hooks.once)
CanvasReadyDebug ==
    /\ debugMode
    /\ dbgHookPending
    /\ dbgHookPending' = FALSE
    /\ ArmOneShotDebugCapture
    /\ emitted' = << >>
    /\ tornDown' = 0
    /\ call' = NoCall
    /\ UNCHANGED <<legacy, debugMode, glAvail, originalGLFunctions, isInterceptorArmed,
                   isApiReady, persistentTexture, textures, resizeListeners, rt,
                   current, targetValid, hasCopied, resizedInPass>>

\* the closure after the entry check of the debug gl.useProgram wrapper
DbgAfterEntry(c, p) ==
    IF DbgMatches(p) /\ ~c.inTargetShaderPass
    THEN [c EXCEPT !.inTargetShaderPass = TRUE, !.drawCountInPass = 0]
    ELSE c

\* the debug gl.useProgram wrapper; extractOk: renderer.extract.canvas,
\* toDataURL and window.open return normally
DbgUseProgram(p, extractOk) ==
    /\ glAvail
    /\ glUseProgram = "dbg"
    /\ LET exit == dbg.inTargetShaderPass
           found == /\ dbg.lastCapturedTexture # NULL
                    /\ ValidRef(dbg.lastCapturedTexture, targetValid, textures)
           thrown == exit /\ found /\ ~extractOk
       IN  /\ (extractOk \/ (exit /\ found))
           /\ emitted' = IF exit
                         THEN << [detector |-> "dbg", by |-> p,
                                  target |-> dbg.lastCapturedTexture,
                                  drawCount |-> dbg.drawCountInPass,
                                  extracted |-> (found /\ extractOk)] >>
                         ELSE << >>
           /\ current' = IF exit /\ found THEN dbg.lastCapturedTexture ELSE current
           /\ armLog' = IF exit /\ armLog.fired < MaxFired
                         THEN [armLog EXCEPT !.fired = @ + 1]
                         ELSE armLog
           /\ call' = [(IF thrown THEN Raised("useProgram", p)
                        ELSE Forwarded("useProgram", p)) EXCEPT
                          !.steps = DbgBindSteps(exit, found, thrown,
                                                 DbgMatches(p) /\ ~exit)]
           /\ IF thrown
              THEN UNCHANGED <<glUseProgram, glDrawElements, dbgArmed, dbg, host>>
              ELSE /\ glUseProgram' = IF exit THEN dbg.originalUseProgram ELSE glUseProgram
                   /\ glDrawElements' = IF exit THEN dbg.originalDrawElements
                                        ELSE glDrawElements
                   /\ dbgArmed' = IF exit THEN FALSE ELSE dbgArmed
                   /\ dbg' = DbgAfterEntry(dbg, p)
                   /\ host' = IF exit THEN HostNone
                              ELSE HostAfterBind(p, dbg.inTargetShaderPass)
    /\ tornDown' = 0
    /\ UNCHANGED <<legacy, debugMode, dbgHookPending, glAvail, originalGLFunctions,
                   isInterceptorArmed, isApiReady, persistentTexture, textures,
                   resizeListeners, rt, targetValid, hasCopied, resizedInPass>>

\* DbgAfterDraw without the drawCountInPass++ of the wrapper
DbgAfterDraw_NoCount(c, cur) ==
    IF c.inTargetShaderPass THEN [c EXCEPT !.lastCapturedTexture = cur] ELSE c

\* the closure after the debug gl.drawElements wrapper
DbgAfterDraw(c, cur) ==
    IF c.inTargetShaderPass
    THEN [c EXCEPT !.drawCountInPass = @ + 1, !.lastCapturedTexture = cur]
    ELSE c

\* the debug gl.drawElements wrapper
DbgDrawElements ==
    /\ glAvail
    /\ glDrawElements = "dbg"
    /\ host.draws < MaxDraws
    /\ dbg' = DbgAfterDraw(dbg, current)
    /\ host' = HostAfterDraw
    /\ emitted' = << >>
    /\ tornDown' = 0
    /\ \E m \in DrawModes :
          call' = [Forwarded("drawElements", m) EXCEPT
                      !.steps = DrawSteps(dbg.inTargetShaderPass)]
    /\ UNCHANGED <<armLog, legacy, debugMode, dbgHookPending, glAvail, glUseProgram, glDrawElements,
                   originalGLFunctions, isInterceptorArmed, isApiReady,
                   persistentTexture, textures, resizeListeners, rt, dbgArmed,
                   current, targetValid, hasCopied, resizedInPass>>

(***************************************************************************)
(* The host.                                                               *)
(***************************************************************************)
\* gl.useProgram while no wrapper is installed
OrigUseProgram(p) ==
    /\ glAvail
    /\ glUseProgram = "orig"
    /\ emitted' = << >>
    /\ tornDown' = 0
    /\ call' = [fn |-> "useProgram", arg |-> p, forwards |-> << >>,
                result |-> OrigReturn("useProgram", p), steps |-> << >>]
    /\ UNCHANGED <<armLog, legacy, debugMode, dbgHookPending, glAvail, glUseProgram, glDrawElements,
                   originalGLFunctions, isInterceptorArmed, isApiReady,
                   persistentTexture, textures, resizeListeners, rt, dbg, dbgArmed,
                   current, targetValid, host, hasCopied, resizedInPass>>

\* gl.drawElements while no wrapper is installed
OrigDrawElements ==
    /\ glAvail
    /\ glDrawElements = "orig"
    /\ emitted' = << >>
    /\ tornDown' = 0
    /\ \E m \in DrawModes :
          call' = [fn |-> "drawElements", arg |-> m, forwards |-> << >>,
                   result |-> OrigReturn("drawElements", m), steps |-> << >>]
    /\ UNCHANGED <<armLog, legacy, debugMode, dbgHookPending, glAvail, glUseProgram, glDrawElements,
                   originalGLFunctions, isInterceptorArmed, isApiReady,
                   persistentTexture, textures, resizeListeners, rt, dbg, dbgArmed,
                   current, targetValid, host, hasCopied, resizedInPass>>

\* renderer.renderTexture.bind(t): the host selects the output target
HostBindTarget(t) ==
    /\ glAvail
    /\ t # current
    /\ current' = t
    /\ emitted' = << >>
    /\ tornDown' = 0
    /\ call' = NoCall
    /\ UNCHANGED <<armLog, legacy, debugMode, dbgHookPending, glAvail, glUseProgram, glDrawElements,
                   originalGLFunctions, isInterceptorArmed, isApiReady,
                   persistentTexture, textures, resizeListeners, rt, dbg, dbgArmed,
                   targetValid, host, hasCopied, resizedInPass>>

\* the host destroys (b = FALSE) or re-creates (b = TRUE) an ephemeral target
HostSetTargetValid(t, b) ==
    /\ targetValid[t] # b
    /\ targetValid' = [targetValid EXCEPT ![t] = b]
    /\ emitted' = << >>
    /\ tornDown' = 0
    /\ call' = NoCall
    /\ UNCHANGED <<armLog, legacy, debugMode, dbgHookPending, glAvail, glUseProgram, glDrawElements,
                   originalGLFunctions, isInterceptorArmed, isApiReady,
                   persistentTexture, textures, resizeListeners, rt, dbg, dbgArmed,
                   current, host, hasCopied, resizedInPass>>

\* the WebGL context is lost (b = FALSE) or obtainable again (b = TRUE)
HostSetGl(b) ==
    /\ glAvail # b
    /\ glAvail' = b
    /\ emitted' = << >>
    /\ tornDown' = 0
    /\ call' = NoCall
    /\ UNCHANGED <<armLog, legacy, debugMode, dbgHookPending, glUseProgram, glDrawElements,
                   originalGLFunctions, isInterceptorArmed, isApiReady,
                   persistentTexture, textures, resizeListeners, rt, dbg, dbgArmed,
                   current, targetValid, host, hasCopied, resizedInPass>>

(***************************************************************************)
(* Debug mode with the arming function open to its callers.  The module    *)
(* calls armOneShotDebugCapture once, from its canvasReady handler; the     *)
(* guard window.illuminationBufferDebugCaptureArmed is there for a caller  *)
(* that arms again, and this specification admits such calls at any time.  *)
(***************************************************************************)
\* a call of armOneShotDebugCapture()
ArmDebugCapture ==
    /\ debugMode
    /\ ArmOneShotDebugCapture
    /\ emitted' = << >>
    /\ tornDown' = 0
    /\ call' = NoCall
    /\ UNCHANGED <<legacy, debugMode, dbgHookPending, glAvail, originalGLFunctions,
                   isInterceptorArmed, isApiReady, persistentTexture, textures,
                   resizeListeners, rt, current, targetValid, hasCopied, resizedInPass>>

InitDebug == Init /\ debugMode

NextDebug ==
    \/ ArmDebugCapture
    \/ \E p \in Programs, ok \in BOOLEAN : DbgUseProgram(p, ok)
    \/ DbgDrawElements
    \/ \E p \in Programs : OrigUseProgram(p)
    \/ OrigDrawElements
    \/ \E t \in Targets \cup {NULL} : HostBindTarget(t)
    \/ \E t \in Targets, b \in BOOLEAN : HostSetTargetValid(t, b)
    \/ \E b \in BOOLEAN : HostSetGl(b)

SpecDebug == InitDebug /\ [][NextDebug]_vars

(***************************************************************************)
(* The two detectors side by side: a fresh real-time closure and a fresh   *)
(* debug closure are fed the same binds and draws, until the debug         *)
(* detector has raised its EndOfPass.                                      *)
(***************************************************************************)
\* the EndOfPass a closure raises at a bind, if it is InPass
PairEvent(name, c, p) ==
    When(c.inTargetShaderPass,
         [detector |-> name, by |-> p, target |-> c.lastCapturedTexture])

\* gl.useProgram(p) reaches both wrappers
PairBind(p) ==
    /\ armLog.fired = 0
    /\ emitted' = PairEvent("rt", rt, p) \o PairEvent("dbg", dbg, p)
    /\ rt' = RtAfterBind(rt, p)
    /\ dbg' = DbgAfterEntry(dbg, p)
    /\ armLog' = IF dbg.inTargetShaderPass THEN [armLog EXCEPT !.fired = 1] ELSE armLog
    /\ host' = HostAfterBind(p, rt.inTargetShaderPass)
    /\ call' = Forwarded("useProgram", p)
    /\ UNCHANGED <<legacy, tornDown, debugMode, dbgHookPending, glAvail, glUseProgram,
                   glDrawElements, originalGLFunctions, isInterceptorArmed, isApiReady,
                   persistentTexture, textures, resizeListeners, dbgArmed, current,
                   targetValid, hasCopied, resizedInPass>>

\* gl.drawElements(...) reaches both wrappers
PairDraw ==
    /\ armLog.fired = 0
    /\ host.draws < MaxDraws
    /\ rt' = RtAfterDraw(rt, current)
    /\ dbg' = DbgAfterDraw(dbg, current)
    /\ host' = HostAfterDraw
    /\ emitted' = << >>
    /\ \E m \in DrawModes : call' = Forwarded("drawElements", m)
    /\ UNCHANGED <<legacy, tornDown, armLog, debugMode, dbgHookPending, glAvail,
                   glUseProgram, glDrawElements, originalGLFunctions, isInterceptorArmed,
                   isApiReady, persistentTexture, textures, resizeListeners, dbgArmed,
                   current, targetValid, hasCopied, resizedInPass>>

InitPair ==
    /\ Init
    /\ ~debugMode

NextPair ==
    \/ \E p \in Programs : PairBind(p)
    \/ PairDraw
    \/ \E t \in Targets \cup {NULL} : HostBindTarget(t)

SpecPair == InitPair /\ [][NextPair]_vars

Next ==
    \/ \E d \in Dims : CanvasReady(d)
    \/ \E d \in Dims : Resize(d)
    \/ \E p \in Programs : RtUseProgram(p)
    \/ RtDrawElements
    \/ TearDownRealTime
    \/ CanvasReadyDebug
    \/ \E p \in Programs, ok \in BOOLEAN : DbgUseProgram(p, ok)
    \/ DbgDrawElements
    \/ \E p \in Programs : OrigUseProgram(p)
    \/ OrigDrawElements
    \/ \E t \in Targets \cup {NULL} : HostBindTarget(t)
    \/ \E t \in Targets, b \in BOOLEAN : HostSetTargetValid(t, b)
    \/ \E b \in BOOLEAN : HostSetGl(b)

Spec == Init /\ [][Next]_vars

(***************************************************************************)
(* The libWrapper variant (interceptor.js lines 184-369, scripts/api.js):  *)
(* the persistent texture is owned by the api object and filled by a       *)
(* wrapper around canvas.effects.illumination.filter.apply; its debug mode *)
(* arms the same one-shot wrappers as above.                               *)
(***************************************************************************)
\* oneShotDebugCapture(renderer)
OneShotDebugCapture ==
    IF ~glAvail
    THEN /\ armLog' = [armLog EXCEPT !.last = "aborted", !.aborted = TRUE]
         /\ UNCHANGED <<dbgArmed, dbg, glUseProgram, glDrawElements, host>>
    ELSE IF dbgArmed
    THEN /\ armLog' = [armLog EXCEPT !.last = "rejected"]
         /\ UNCHANGED <<dbgArmed, dbg, glUseProgram, glDrawElements, host>>
    ELSE /\ dbgArmed' = TRUE
         /\ dbg' = DbgClosure(glUseProgram, glDrawElements)
         /\ glUseProgram' = "dbg"
         /\ glDrawElements' = "dbg"
         /\ host' = HostNone
         /\ armLog' = [armLog EXCEPT !.last = "armed", !.fired = 0]

\* api.initialize(renderer) on the pair (persistentTexture, textures)
ApiInitialize(b, d) ==
    LET released == IF b.persistentTexture # NULL
                    THEN DestroyTexture(b.textures, b.persistentTexture)
                    ELSE b.textures
        id == FreshTex(released)
    IN  [persistentTexture |-> id, textures |-> CreateTexture(released, id, d)]

\* the condition under which api.updateFromSource(sourceTexture, renderer) copies
ApiCopies(src, valid, texs, ptex) ==
    /\ src # NULL
    /\ ValidRef(src, valid, texs)
    /\ ptex # NULL
    /\ texs[ptex].state = "live"

\* Hooks.callAll('illuminationBufferReady', api) without the payload
CallAllReady_NoPayload(notes) == Append(notes, "undefined")

\* Hooks.callAll('illuminationBufferReady', api)
CallAllReady(notes) == Append(notes, "api")

\* the canvasReady handler (Hooks.once); d: renderer.screen
LegacyCanvasReady(d) ==
    /\ legacy.hookPending
    /\ IF ~legacy.renderer
       THEN /\ legacy' = [legacy EXCEPT !.hookPending = FALSE]
            /\ UNCHANGED <<textures, dbgArmed, dbg, glUseProgram, glDrawElements, host,
                           armLog>>
       ELSE IF debugMode
       THEN /\ legacy' = [legacy EXCEPT !.hookPending = FALSE]
            /\ OneShotDebugCapture
            /\ UNCHANGED textures
       ELSE LET b == ApiInitialize([persistentTexture |-> legacy.apiTexture,
                                    textures |-> textures], d)
                registers == legacy.libWrapperActive /\ legacy.filterApply
            IN  /\ textures' = b.textures
                /\ legacy' = [legacy EXCEPT
                       !.hookPending = FALSE,
                       !.apiTexture = b.persistentTexture,
                       !.wrapperRegistered = registers,
                       !.previewSprite = legacy.isPreview,
                       !.previewTexture = IF legacy.isPreview THEN b.persistentTexture
                                          ELSE NULL,
                       !.tickerAdded = TRUE,
                       !.notifications = CallAllReady(legacy.notifications)]
                /\ UNCHANGED <<dbgArmed, dbg, glUseProgram, glDrawElements, host,
                               armLog>>
    /\ emitted' = << >>
    /\ tornDown' = 0
    /\ call' = NoCall
    /\ UNCHANGED <<debugMode, dbgHookPending, glAvail, originalGLFunctions,
                   isInterceptorArmed, isApiReady, persistentTexture,
                   resizeListeners, rt, current, targetValid, hasCopied, resizedInPass>>

\* the wrapper registered on canvas.effects.illumination.filter.apply;
\* src: args[1], the illumination texture of the frame
LegacyFilterApply(src) ==
    /\ legacy.wrapperRegistered
    /\ LET copy == ApiCopies(src, targetValid, textures, legacy.apiTexture)
       IN  /\ textures' = IF copy THEN RenderInto(textures, src, legacy.apiTexture)
                         ELSE textures
           /\ current' = IF copy THEN Own(legacy.apiTexture) ELSE current
           /\ legacy' = [legacy EXCEPT !.didCopy = TRUE, !.copied = (@ \/ copy)]
    /\ emitted' = << >>
    /\ tornDown' = 0
    /\ call' = NoCall
    /\ UNCHANGED <<armLog, debugMode, dbgHookPending, glAvail, glUseProgram, glDrawElements,
                   originalGLFunctions, isInterceptorArmed, isApiReady,
                   persistentTexture, resizeListeners, rt, dbg, dbgArmed,
                   targetValid, host, hasCopied, resizedInPass>>

\* the callback added to canvas.app.ticker
LegacyTicker ==
    /\ legacy.tickerAdded
    /\ legacy' = IF legacy.didCopy
                 THEN [legacy EXCEPT !.didCopy = FALSE,
                                     !.previewTexture = IF legacy.previewSprite
                                                        THEN legacy.apiTexture ELSE @]
                 ELSE legacy
    /\ emitted' = << >>
    /\ tornDown' = 0
    /\ call' = NoCall
    /\ UNCHANGED <<armLog, debugMode, dbgHookPending, glAvail, glUseProgram, glDrawElements,
                   originalGLFunctions, isInterceptorArmed, isApiReady,
                   persistentTexture, textures, resizeListeners, rt, dbg, dbgArmed,
                   current, targetValid, host, hasCopied, resizedInPass>>

\* the state after the 'init' hook of the libWrapper variant
InitLegacy ==
    /\ debugMode \in BOOLEAN
    /\ dbgHookPending = FALSE
    /\ \E r, pv, lw, fa \in BOOLEAN :
          /\ legacy = LegacyState(TRUE, r, pv, lw, fa)
          /\ glAvail = r
    /\ glUseProgram = "orig"
    /\ glDrawElements = "orig"
    /\ originalGLFunctions = NoFunctions
    /\ isInterceptorArmed = FALSE
    /\ isApiReady = FALSE
    /\ persistentTexture = NULL
    /\ textures = [i \in TexIds |-> FreeTex]
    /\ resizeListeners = 0
    /\ rt = RtClosure
    /\ dbg = DbgClosure("null", "null")
    /\ dbgArmed = FALSE
    /\ current = NULL
    /\ targetValid = [t \in Targets |-> TRUE]
    /\ emitted = << >>
    /\ host = HostNone
    /\ hasCopied = FALSE
    /\ resizedInPass = FALSE
    /\ tornDown = 0
    /\ armLog = NoArm
    /\ call = NoCall

NextLegacy ==
    \/ \E d \in Dims : LegacyCanvasReady(d)
    \/ \E src \in Targets \cup {NULL} : LegacyFilterApply(src)
    \/ LegacyTicker
    \/ \E p \in Programs, ok \in BOOLEAN : DbgUseProgram(p, ok)
    \/ DbgDrawElements
    \/ \E p \in Programs : OrigUseProgram(p)
    \/ OrigDrawElements
    \/ \E t \in Targets \cup {NULL} : HostBindTarget(t)
    \/ \E t \in Targets, b \in BOOLEAN : HostSetTargetValid(t, b)

SpecLegacy == InitLegacy /\ [][NextLegacy]_vars

(***************************************************************************)
(* Steps of the pass detectors, for the properties below.                  *)
(***************************************************************************)
NonMatching == {"other", "opaque"}

\* the installed detector handles gl.useProgram(p)
BindStep(p) == RtUseProgram(p) \/ \E ok \in BOOLEAN : DbgUseProgram(p, ok)

\* the installed detector is InPass
InPass ==
    \/ glUseProgram = "rt" /\ rt.inTargetShaderPass
    \/ glUseProgram = "dbg" /\ dbg.inTargetShaderPass

C3_ExitBeforeEntry ==
    [][ \A p \in NonMatching \cup {"target"} :
           (BindStep(p) /\ InPass)
              => LET flagAfter == IF glUseProgram = "rt"
                                  THEN rt'.inTargetShaderPass
                                  ELSE dbg'.inTargetShaderPass
                 IN  /\ Len(emitted') = 1
                     /\ flagAfter = (p = "target") ]_vars

(***************************************************************************)
(* C4 (as claimed): a bind of the target program that finds the detector   *)
(* InPass starts a new pass whose drawCount is 0.                          *)
(***************************************************************************)
C4_BackToBackResetsDrawCount ==
    [][ (DbgUseProgram("target", TRUE) /\ dbg.inTargetShaderPass)
           => dbg'.drawCountInPass = 0 ]_vars

\* the buffer behind a handle is live
LiveIn(texs, id) == id # NULL /\ texs[id].state = "live"

Live(id) == LiveIn(textures, id)

\* the real-time wrapper leaves a pass with a valid target and a live buffer
CopyStep(p) ==
    /\ RtUseProgram(p)
    /\ rt.inTargetShaderPass
    /\ rt.lastCapturedTexture # NULL
    /\ ValidRef(rt.lastCapturedTexture, targetValid, textures)
    /\ Live(persistentTexture)

C6_ReadyIffPopulated ==
    IsReady <=> (Live(persistentTexture) /\ textures[persistentTexture].populated)

(***************************************************************************)
(* C7: getTexture() returns null in debug mode and as long as no copy has  *)
(* succeeded since the last teardown; in every other state it returns the  *)
(* persistent buffer, which is live.                                       *)
(***************************************************************************)
C7_GetTextureNullOrLive ==
    /\ (debugMode \/ ~hasCopied) => GetTexture = NULL
    /\ (~debugMode /\ hasCopied) => (GetTexture = persistentTexture /\ Live(GetTexture))

C7_Witness ==
    /\ GetTexture # NULL
    /\ textures[GetTexture].populated
    /\ isInterceptorArmed

C9_ResizeThenGetTexture ==
    [][ \A d \in Dims :
           Resize(d) => /\ LiveIn(textures', GetTexture')
                        /\ <<textures'[GetTexture'].w, textures'[GetTexture'].h>> = d ]_vars

(***************************************************************************)
(* C9 (amended): after resize(w, h), getTexture() returns null when no     *)
(* copy has made the API ready, and otherwise a live buffer of size        *)
(* (w, h) that is not the buffer held before the resize.                   *)
(***************************************************************************)
C9_ResizeThenGetTextureWhenReady ==
    [][ \A d \in Dims :
           Resize(d) => IF IsReady'
                        THEN /\ LiveIn(textures', GetTexture')
                             /\ <<textures'[GetTexture'].w, textures'[GetTexture'].h>> = d
                             /\ GetTexture' # persistentTexture
                        ELSE GetTexture' = NULL ]_vars

C9_Witness ==
    /\ IsReady
    /\ Live(GetTexture)
    /\ textures[GetTexture].w = 1920
    /\ resizeListeners = 1
    /\ \E i \in TexIds : textures[i].state = "destroyed"
    /\ ~textures[GetTexture].populated

(***************************************************************************)
(* C10 (as claimed): when a resize hits a pass in which a target has been  *)
(* recorded, the copy at the end of that pass is skipped; every copy that  *)
(* is made lands in the buffer that is live at that moment, so the next    *)
(* one lands in the buffer the resize created.                             *)
(***************************************************************************)
C10_ResizeInPassSkipsCopy ==
    [][ \A p \in Programs :
           /\ (RtUseProgram(p) /\ rt.inTargetShaderPass /\ resizedInPass)
                 => (Len(emitted') = 1 /\ ~emitted'[1].copied)
           /\ (RtUseProgram(p) /\ emitted' # << >> /\ emitted'[1].copied)
                 => (emitted'[1].dst = persistentTexture /\ Live(persistentTexture)) ]_vars

\* the surfaces that are allocated
LiveSet(texs) == {i \in TexIds : texs[i].state = "live"}

(***************************************************************************)
(* C11: an end-of-pass copy never writes into a destroyed persistent       *)
(* buffer.  Whatever the interleaving of binds, draws, resizes, canvasReady *)
(* and teardown, the destination of a copy is the persistent buffer of the *)
(* moment, it is live before and after the copy, and no destroyed buffer   *)
(* ever holds copied pixels.                                               *)
(***************************************************************************)
C11_CopyIntoLiveBuffer ==
    /\ [](\A i \in TexIds : textures[i].populated => textures[i].state = "live")
    /\ [][ \A p \in Programs :
              (RtUseProgram(p) /\ emitted' # << >> /\ emitted'[1].copied)
                 => /\ emitted'[1].dst = persistentTexture
                    /\ persistentTexture' = persistentTexture
                    /\ LiveIn(textures, emitted'[1].dst)
                    /\ LiveIn(textures', emitted'[1].dst)
                    /\ textures'[emitted'[1].dst].populated ]_vars

C11_Witness ==
    /\ Len(emitted) = 1
    /\ emitted[1].detector = "rt"
    /\ emitted[1].copied
    /\ textures[emitted[1].dst].w = 1920
    /\ textures[emitted[1].dst].populated
    /\ \E i \in TexIds : textures[i].state = "destroyed"

C13_TearDownRestoresAll ==
    [][ TearDownRealTime
           => /\ glUseProgram' = "orig"
              /\ glDrawElements' = "orig"
              /\ originalGLFunctions.useProgram # "null"
                    => /\ glUseProgram' = originalGLFunctions.useProgram
                       /\ glDrawElements' = originalGLFunctions.drawElements
              /\ persistentTexture' = NULL
              /\ persistentTexture # NULL
                    => textures'[persistentTexture].state = "destroyed"
              /\ ~isApiReady'
              /\ ~isInterceptorArmed' ]_vars

(***************************************************************************)
(* C14: teardown is idempotent.  A canvasTearDown handled right after      *)
(* another one destroys nothing and leaves the entry points, the saved     *)
(* originals, the buffer reference, the surfaces, isApiReady,              *)
(* isInterceptorArmed and the resize registrations as they were.           *)
(***************************************************************************)
C14_TearDownIdempotent ==
    [][ (TearDownRealTime /\ tornDown >= 1)
           => UNCHANGED <<glUseProgram, glDrawElements, originalGLFunctions,
                          persistentTexture, textures, isApiReady,
                          isInterceptorArmed, resizeListeners, rt>> ]_vars

C14_Witness ==
    /\ tornDown = 2
    /\ originalGLFunctions.useProgram = "orig"
    /\ glUseProgram = "orig"
    /\ persistentTexture = NULL
    /\ \E i \in TexIds : textures[i].state = "destroyed"

(***************************************************************************)
(* C15: arming the debug capture while the guard is set is rejected.  The  *)
(* call installs nothing, leaves the guard set, and leaves the armed       *)
(* instance (its saved originals, inTargetShaderPass, drawCountInPass and  *)
(* lastCapturedTexture) as it was.                                         *)
(***************************************************************************)
C15_DoubleArmRejected ==
    [][ (ArmDebugCapture /\ dbgArmed)
           => /\ UNCHANGED <<glUseProgram, glDrawElements, dbg>>
              /\ dbgArmed'
              /\ armLog'.last = "rejected" ]_vars

C15_Witness ==
    /\ armLog.last = "rejected"
    /\ dbgArmed
    /\ glUseProgram = "dbg"
    /\ dbg.originalUseProgram = "orig"
    /\ dbg.inTargetShaderPass
    /\ dbg.drawCountInPass = 2
    /\ dbg.lastCapturedTexture # NULL

(***************************************************************************)
(* C16 (as claimed): the one-shot detector raises EndOfPass at most once   *)
(* per arming; its first EndOfPass restores both entry points to the       *)
(* functions saved at arm time and clears the guard, whether or not a      *)
(* valid target was found.                                                 *)
(***************************************************************************)
C16_FiresAtMostOnce ==
    /\ [](armLog.fired <= 1)
    /\ [][ \A p \in Programs, ok \in BOOLEAN :
              (DbgUseProgram(p, ok) /\ armLog.fired = 0 /\ emitted' # << >>)
                 => /\ glUseProgram' = dbg.originalUseProgram
                    /\ glDrawElements' = dbg.originalDrawElements
                    /\ ~dbgArmed' ]_vars

(***************************************************************************)
(* C17 (as claimed): when reading back or presenting the captured target   *)
(* fails during the EndOfPass, the entry points are still restored, the    *)
(* guard is still cleared, and the caller of the intercepted bind gets the *)
(* original's return value, not the failure.                               *)
(***************************************************************************)
C17_SelfCancelsOnFailure ==
    [][ \A p \in Programs :
           (DbgUseProgram(p, FALSE) /\ emitted' # << >>)
              => /\ glUseProgram' = dbg.originalUseProgram
                 /\ glDrawElements' = dbg.originalDrawElements
                 /\ ~dbgArmed'
                 /\ call'.result = OrigReturn("useProgram", p) ]_vars

(***************************************************************************)
(* C18: arming the debug capture without a graphics context aborts.  No    *)
(* entry point is replaced and the guard is clear when the call returns,   *)
(* so the next call of the arming function is not rejected as a double     *)
(* arm.                                                                    *)
(***************************************************************************)
C18_ArmWithoutContextAborts ==
    [][ /\ (ArmDebugCapture /\ ~dbgArmed /\ ~glAvail)
             => /\ UNCHANGED <<glUseProgram, glDrawElements, dbg>>
                /\ ~dbgArmed'
                /\ armLog'.last = "aborted"
        /\ (ArmDebugCapture /\ armLog.last = "aborted")
             => armLog'.last # "rejected" ]_vars

C18_Witness ==
    /\ armLog.aborted
    /\ armLog.last = "armed"
    /\ dbgArmed
    /\ glUseProgram = "dbg"
    /\ glDrawElements = "dbg"

\* a wrapper installed by the module
Wrappers == {"rt", "dbg"}

\* an installed wrapper handles a gl call
InterceptStep ==
    \/ \E p \in Programs : BindStep(p)
    \/ RtDrawElements
    \/ DbgDrawElements

\* the module replaces the two entry points
InstallStep ==
    \/ (\E d \in Dims : CanvasReady(d)) /\ ~isInterceptorArmed /\ isInterceptorArmed'
    \/ (CanvasReadyDebug \/ ArmDebugCapture) /\ ~dbgArmed /\ dbgArmed'

\* the module puts the saved functions back
RestoreStep ==
    \/ TearDownRealTime /\ isInterceptorArmed /\ glAvail
    \/ (\E p \in Programs : DbgUseProgram(p, TRUE)) /\ dbgArmed /\ ~dbgArmed'

(***************************************************************************)
(* C19 (as claimed): every bind and every indexed draw an installed        *)
(* wrapper receives reaches the original exactly once, with the arguments  *)
(* and the receiver of the call, and the caller gets what the original     *)
(* returned, whatever the state of the detector and also when the call     *)
(* ends a pass.                                                            *)
(***************************************************************************)
C19_ForwardsExactlyOnce ==
    [][ /\ InterceptStep
             => /\ call'.forwards = << Forward(call'.fn, call'.arg) >>
                /\ call'.result = OrigReturn(call'.fn, call'.arg)
        /\ \A p \in Programs :
              BindStep(p) => (call'.fn = "useProgram" /\ call'.arg = p) ]_vars

(***************************************************************************)
(* C20 (as claimed): a restore puts back exactly the functions the entry   *)
(* points held before the tap was installed, and the entry points are      *)
(* never patched while a wrapper of the module is still installed.         *)
(***************************************************************************)
C20_RestoreYieldsPreInstall ==
    [][ /\ RestoreStep => (glUseProgram' = "orig" /\ glDrawElements' = "orig")
        /\ InstallStep => (glUseProgram \notin Wrappers /\ glDrawElements \notin Wrappers)
      ]_vars

Precedes(st, x, y) ==
    \A i, j \in 1 .. Len(st) : (st[i] = x /\ st[j] = y) => i < j

Unresolvable == {p \in Programs : ShaderSource(p).throws \/ ShaderSource(p).isNull}

(***************************************************************************)
(* C23: a bind of a program whose identifier cannot be resolved (the       *)
(* lookup raises or yields no source) is a non-match.  The detector is not *)
(* InPass after it unless it was already (the debug detector) and never    *)
(* after it in the real-time detector; a pass that was running is ended by *)
(* it (one EndOfPass); and the call is forwarded to the original and       *)
(* returns the original's value.                                           *)
(***************************************************************************)
C23_UnresolvableIsNoMatch ==
    [][ \A p \in Unresolvable :
           /\ RtUseProgram(p)
                 => /\ ~rt'.inTargetShaderPass
                    /\ rt.inTargetShaderPass <=> Len(emitted') = 1
                    /\ call'.forwards = << Forward("useProgram", p) >>
                    /\ call'.result = OrigReturn("useProgram", p)
           /\ DbgUseProgram(p, TRUE)
                 => /\ ~dbg.inTargetShaderPass => ~dbg'.inTargetShaderPass
                    /\ dbg.inTargetShaderPass <=> Len(emitted') = 1
                    /\ dbg'.drawCountInPass = dbg.drawCountInPass
                    /\ call'.forwards = << Forward("useProgram", p) >>
                    /\ call'.result = OrigReturn("useProgram", p) ]_vars

C23_Witness ==
    /\ call.fn = "useProgram"
    /\ call.arg \in Unresolvable
    /\ Len(emitted) = 1
    /\ emitted[1].detector = "rt"
    /\ emitted[1].copied
    /\ ~rt.inTargetShaderPass

\* the target the real-time detector holds cannot be copied, or there is no
\* persistent buffer to copy into
NothingToCopy ==
    \/ rt.lastCapturedTexture = NULL
    \/ ~ValidRef(rt.lastCapturedTexture, targetValid, textures)
    \/ persistentTexture = NULL

(***************************************************************************)
(* C24: at an EndOfPass whose captured target is absent or invalid, or     *)
(* with no persistent buffer, nothing is copied and nothing is raised: the *)
(* buffer, its contents and isApiReady stay as they were and the bind is   *)
(* forwarded; a copy is made only when the target is valid and the buffer  *)
(* exists.  The same holds for api.updateFromSource.                       *)
(***************************************************************************)
C24_InvalidTargetSkipsCopy ==
    [][ /\ \A p \in Programs :
              (RtUseProgram(p) /\ rt.inTargetShaderPass)
                 => IF NothingToCopy
                    THEN /\ emitted' # << >> /\ ~emitted'[1].copied
                         /\ UNCHANGED <<textures, persistentTexture, isApiReady>>
                         /\ call'.result = OrigReturn("useProgram", p)
                    ELSE /\ emitted' # << >> /\ emitted'[1].copied
                         /\ isApiReady'
        /\ \A src \in Targets \cup {NULL} :
              (LegacyFilterApply(src)
                 /\ (src = NULL \/ ~ValidRef(src, targetValid, textures)
                        \/ legacy.apiTexture = NULL))
                 => UNCHANGED textures ]_vars

C24_Witness ==
    /\ Len(emitted) = 1
    /\ emitted[1].detector = "rt"
    /\ ~emitted[1].copied
    /\ emitted[1].target \in Targets
    /\ ~targetValid[emitted[1].target]
    /\ isApiReady
    /\ Live(persistentTexture)
    /\ textures[persistentTexture].populated

C26_TargetOfSamePass ==
    [][ \A p \in Programs :
           (BindStep(p) /\ InPass /\ host.draws = 0)
              => /\ Len(emitted') = 1
                 /\ emitted'[1].target = NULL
                 /\ emitted'[1].detector = "rt" => ~emitted'[1].copied
                 /\ emitted'[1].detector = "dbg" => ~emitted'[1].extracted ]_vars

(***************************************************************************)
(* C27: inTargetShaderPass changes only in the gl.useProgram wrapper (and  *)
(* when a new detector is installed).  A draw never changes it; a draw     *)
(* that finds the detector Idle changes neither drawCountInPass nor        *)
(* lastCapturedTexture; a resize changes nothing of the detector.          *)
(***************************************************************************)
C27_PassStateChangesAtBindOnly ==
    [][ /\ RtDrawElements => rt'.inTargetShaderPass = rt.inTargetShaderPass
        /\ DbgDrawElements => dbg'.inTargetShaderPass = dbg.inTargetShaderPass
        /\ (RtDrawElements /\ ~rt.inTargetShaderPass)
              => rt'.lastCapturedTexture = rt.lastCapturedTexture
        /\ (DbgDrawElements /\ ~dbg.inTargetShaderPass)
              => /\ dbg'.lastCapturedTexture = dbg.lastCapturedTexture
                 /\ dbg'.drawCountInPass = dbg.drawCountInPass
        /\ \A d \in Dims : Resize(d) => UNCHANGED <<rt, dbg>>
        /\ rt'.inTargetShaderPass # rt.inTargetShaderPass
              => (\E p \in Programs : RtUseProgram(p)) \/ InstallStep
        /\ dbg'.inTargetShaderPass # dbg.inTargetShaderPass
              => (\E p \in Programs, ok \in BOOLEAN : DbgUseProgram(p, ok)) \/ InstallStep
      ]_vars

C27_Witness ==
    /\ resizedInPass
    /\ rt.inTargetShaderPass
    /\ rt.lastCapturedTexture # NULL
    /\ host.draws = 2
    /\ call.fn = "drawElements"

(***************************************************************************)
(* C28 (as claimed): fed the same binds and draws from Idle, the debug     *)
(* detector and the real-time detector are in the same PassState after     *)
(* every event and raise EndOfPass at the same binds with the same target, *)
(* up to and including the first EndOfPass.                                *)
(***************************************************************************)
C28_DetectorsAgree ==
    /\ rt.inTargetShaderPass = dbg.inTargetShaderPass
    /\ rt.lastCapturedTexture = dbg.lastCapturedTexture
    /\ Len(emitted) \in {0, 2}
    /\ Len(emitted) = 2 => emitted[1].target = emitted[2].target

(***************************************************************************)
(* C29: in the real-time detector the flag is already cleared when the     *)
(* end-of-pass copy starts, so the bind and the draw that the copy issues  *)
(* through the installed wrappers raise no nested EndOfPass, start no      *)
(* nested copy and leave lastCapturedTexture as it was; a pass exit leads  *)
(* to at most one copy.                                                    *)
(***************************************************************************)
C29_CopyIsNotReentered ==
    /\ [](\A i \in 1..Len(emitted) :
              emitted[i].detector = "rt"
                 => /\ ~emitted[i].inPassDuringCopy
                    /\ emitted[i].nestedExits = 0
                    /\ emitted[i].copies <= 1
                    /\ emitted[i].copied <=> emitted[i].copies = 1)
    /\ [][\A p \in Programs :
              (RtUseProgram(p) /\ emitted' # << >> /\ emitted'[1].copied)
                 => rt'.lastCapturedTexture = rt.lastCapturedTexture]_vars

C29_Witness ==
    /\ Len(emitted) = 1
    /\ emitted[1].detector = "rt"
    /\ emitted[1].copies = 1
    /\ emitted[1].nestedExits = 0
    /\ rt.lastCapturedTexture \in Targets
    /\ current = Own(persistentTexture)

(***************************************************************************)
(* C30: on the real-time path, whenever isReady() is true the reference    *)
(* persistentTexture is non-null and refers to a texture that has not been *)
(* destroyed, so getTexture() does not return null while isReady() is      *)
(* true.                                                                   *)
(***************************************************************************)
C30_ReadyImpliesLiveBuffer ==
    IsReady => /\ persistentTexture # NULL
               /\ Live(persistentTexture)
               /\ GetTexture # NULL

C30_Witness ==
    /\ IsReady
    /\ tornDown = 0
    /\ GetTexture # NULL
    /\ Live(GetTexture)
    /\ ~textures[GetTexture].populated

(***************************************************************************)
(* C31 (as claimed): the installed flags agree with the patch state in     *)
(* every reachable state: isInterceptorArmed is true exactly when the      *)
(* real-time wrappers are the installed entry points, and the debug guard  *)
(* is set exactly when the debug wrappers are the installed entry points,  *)
(* also after a teardown that could not obtain the graphics context.       *)
(***************************************************************************)
C31_FlagsAgreeWithPatchState ==
    /\ isInterceptorArmed <=> (glUseProgram = "rt" /\ glDrawElements = "rt")
    /\ dbgArmed <=> (glUseProgram = "dbg" /\ glDrawElements = "dbg")

\* how often step x occurs in the steps of a call
Count(steps, x) == Cardinality({i \in 1..Len(steps) : steps[i] = x})

(***************************************************************************)
(* C32: the real-time wrappers never nest.  Whenever they are installed,   *)
(* also after a teardown that could not restore the entry points, after a  *)
(* new install over wrappers left behind and after a second canvasReady    *)
(* without teardown, the functions they forward to are the originals saved *)
(* at the first install; each call they receive reaches the original       *)
(* exactly once and makes at most one step of the detector.                *)
(***************************************************************************)
C32_WrappersNeverNest ==
    /\ [](glUseProgram = "rt" => originalGLFunctions.useProgram = "orig")
    /\ [](glDrawElements = "rt" => originalGLFunctions.drawElements = "orig")
    /\ [][ /\ originalGLFunctions.useProgram # "null"
                 => originalGLFunctions' = originalGLFunctions
           /\ ((\E p \in Programs : RtUseProgram(p)) \/ RtDrawElements)
                 => /\ call'.forwards = << Forward(call'.fn, call'.arg) >>
                    /\ call'.result = OrigReturn(call'.fn, call'.arg)
                    /\ Count(call'.steps, "forward") = 1
                    /\ Count(call'.steps, "exit") <= 1
                    /\ Count(call'.steps, "entry") <= 1
                    /\ Count(call'.steps, "record") <= 1 ]_vars

C32_Witness ==
    /\ glUseProgram = "rt"
    /\ ~isInterceptorArmed
    /\ originalGLFunctions.useProgram = "orig"
    /\ call.fn = "useProgram"
    /\ call.forwards = << Forward("useProgram", call.arg) >>
    /\ Count(call.steps, "exit") = 1

(***************************************************************************)
(* C33 (as claimed): after a teardown followed by a new canvasReady the    *)
(* installed real-time detector is Idle and holds no captured target, so   *)
(* the first copy of the new activation cannot use a target recorded in    *)
(* the previous activation; isApiReady is false after that canvasReady and *)
(* becomes true again only at a copy.                                      *)
(***************************************************************************)
C33_NewActivationStartsFresh ==
    [][ /\ \A d \in Dims :
              (CanvasReady(d) /\ ~isInterceptorArmed)
                 => /\ glUseProgram' = "rt" => rt' = RtClosure
                    /\ ~isApiReady'
        /\ (~isApiReady /\ isApiReady')
              => /\ \E p \in Programs : RtUseProgram(p)
                 /\ emitted' # << >>
                 /\ emitted'[1].copied ]_vars

====
